---- MODULE Spec2Model ----
(***************************************************************************)
(* A model of pkg/reconciler/contour/resources/httpproxy.go: the compiler  *)
(* MakeHTTPProxies (ingress -> HTTPProxy resources) and the inventory      *)
(* ServiceNames (ingress -> per-service information).                       *)
(*                                                                         *)
(* Go values are represented as follows.  A struct is a record; a slice is *)
(* a sequence; a map is a function whose DOMAIN is the key set; a pointer  *)
(* or optional field is a sequence of length 0 (nil) or 1 (the value).     *)
(* Strings are TLA+ strings, with the operations of package strings        *)
(* written out below.                                                      *)
(*                                                                         *)
(* MakeHTTPProxies compiles a private copy of its argument, held in        *)
(* `work`: the value of ing.DeepCopy() after ingress.InsertProbe (lines    *)
(* 103-104) has added the probe paths to it.  The argument `ing` itself is *)
(* never written.                                                          *)
(***************************************************************************)
EXTENDS Integers, Sequences, FiniteSets, TLC

None == <<>>
Some(x) == <<x>>

----------------------------------------------------------------------------
(* Strings: package strings, fmt.Sprintf and Go's < on strings.            *)

\* The characters used by the model's strings, in ascending byte order.
Ascii == "-./0123456789:ABCDEFGHIJKLMNOPQRSTUVWXYZ_abcdefghijklmnopqrstuvwxyz"

CharCode == [c \in {SubSeq(Ascii, i, i) : i \in 1..Len(Ascii)} |->
               CHOOSE i \in 1..Len(Ascii) : SubSeq(Ascii, i, i) = c]

RECURSIVE StrLessFrom(_, _, _)
StrLessFrom(a, b, i) ==
    IF i > Len(b) THEN FALSE
    ELSE IF i > Len(a) THEN TRUE
    ELSE LET ca == CharCode[SubSeq(a, i, i)]
             cb == CharCode[SubSeq(b, i, i)]
         IN  IF ca # cb THEN ca < cb ELSE StrLessFrom(a, b, i + 1)

\* Go's a < b on strings: bytewise lexicographic order.
StrLess(a, b) == StrLessFrom(a, b, 1)

HasSuffix(s, suffix) ==
    /\ Len(s) >= Len(suffix)
    /\ SubSeq(s, Len(s) - Len(suffix) + 1, Len(s)) = suffix

TrimSuffix(s, suffix) ==
    IF HasSuffix(s, suffix) THEN SubSeq(s, 1, Len(s) - Len(suffix)) ELSE s

Contains(s, substr) ==
    \E i \in 1..(Len(s) - Len(substr) + 1) :
        SubSeq(s, i, i + Len(substr) - 1) = substr

Digits == <<"0", "1", "2", "3", "4", "5", "6", "7", "8", "9">>

\* fmt.Sprintf("%d", n) for n >= 0.
RECURSIVE FormatInt(_)
FormatInt(n) ==
    IF n < Len(Digits) THEN Digits[n + 1]
    ELSE FormatInt(n \div Len(Digits)) \o Digits[(n % Len(Digits)) + 1]

\* The last "."-separated part of a domain name.
RECURSIVE LastLabelFrom(_, _)
LastLabelFrom(s, i) ==
    IF i = 0 THEN s
    ELSE IF SubSeq(s, i, i) = "." THEN SubSeq(s, i + 1, Len(s))
    ELSE LastLabelFrom(s, i - 1)

----------------------------------------------------------------------------
(* Sequences.                                                              *)

Range(seq) == {seq[i] : i \in DOMAIN seq}

\* Every arrangement of the elements of the finite set S in a sequence.
Orderings(S) ==
    {f \in [1..Cardinality(S) -> S] : \A i, j \in DOMAIN f : f[i] = f[j] => i = j}

\* The rearrangements of seq (as index permutations applied to it).
Rearrangements(seq) ==
    {[i \in DOMAIN seq |-> seq[p[i]]] : p \in Orderings(DOMAIN seq)}

\* sort.Slice is modelled by SortHeaderValues and SortConditions below, one
\* per comparison.  The sort is not stable: its result is some rearrangement
\* of the slice in which no element is less than an earlier one; elements
\* that compare equal may come out in either order.

\* `for key, value := range m` on a Go map: the iteration order is
\* unspecified; every order of the keys is possible.
RangeOverMap(m) ==
    {[i \in DOMAIN o |-> [Name |-> o[i], Value |-> m[o[i]]]] : o \in Orderings(DOMAIN m)}

----------------------------------------------------------------------------
(* Names the code takes from other packages.                               *)

IngressVisibilityExternalIP == "ExternalIP"
IngressVisibilityClusterLocal == "ClusterLocal"
HTTPOptionEnabled == "Enabled"
HTTPOptionRedirected == "Redirected"

OriginalHostKey == "K-Original-Host"
HashKey == "K-Network-Hash"

GenerationKey == "contour.networking.knative.dev/generation"
ParentKey == "contour.networking.knative.dev/parent"
ClassKey == "projectcontour.io/ingress.class"
DomainHashKey == "contour.networking.knative.dev/domainHash"
ExtensionServiceKey == "contour.networking.knative.dev/extension-service"
ExtensionServiceNamespaceKey == "contour.networking.knative.dev/extension-service-namespace"
HTTPChallengePath == "/.well-known/acme-challenge"

ClusterDomainName == "cluster.local"
SystemNamespace == "knative-serving"
ServingInternalCertName == "knative-internal-certs"
FakeDnsName == "data-plane.knative.dev"

\* kmeta.ChildName(parent, suffix): the concatenation when it fits a DNS
\* label's 63 characters, otherwise a name that carries a digest.
ChildName(parent, suffix) ==
    IF Len(parent) + Len(suffix) <= 63 THEN parent \o suffix
    ELSE "md5(" \o parent \o suffix \o ")"

\* fmt.Sprintf("%x", sha1.Sum([]byte(host))): a digest, kept symbolic.
Sha1Hex(host) == "sha1(" \o host \o ")"

\* ingress.isValidTopLevelDomain: the last label is not a number and fits.
IsValidTopLevelDomain(domain) ==
    LET tld == LastLabelFrom(domain, Len(domain))
    IN  /\ Len(tld) <= 63
        /\ \E i \in 1..Len(tld) : CharCode[SubSeq(tld, i, i)] \notin
                                    {CharCode[Digits[d]] : d \in DOMAIN Digits}

\* ingress.ExpandedHosts(sets.NewString(h)): the host and the short forms a
\* cluster-domain name stands for.
ExpandedHosts(h) ==
    LET allowedSuffixes == {"", "." \o ClusterDomainName, ".svc." \o ClusterDomainName}
    IN  {TrimSuffix(h, suffix) : suffix \in
            {x \in allowedSuffixes :
                /\ x = "" \/ Len(TrimSuffix(h, x)) < Len(h)
                /\ IsValidTopLevelDomain(TrimSuffix(h, x))}}

\* sets.String.List(): the elements in ascending order.
List(S) ==
    CHOOSE o \in Orderings(S) : \A i, j \in DOMAIN o : i < j => StrLess(o[i], o[j])

\* kmeta.NewControllerRef(ing).
NewControllerRef(in) == [Name |-> in.Name, Controller |-> TRUE]

HashValueOverride == "override"

\* fmt.Sprintf("%x", ingress.ComputeHash(ing)): a digest, kept symbolic.
ComputeHash(in) == "sha256(" \o in.Name \o ")"

\* m[k] = v on a Go map (created first when nil).
WithEntry(m, k, v) == [x \in DOMAIN m \cup {k} |-> IF x = k THEN v ELSE m[x]]

\* The probe copy InsertProbe makes of a path: it matches the probe header
\* exactly and appends the hash of the ingress.
ProbePath(path, hash) ==
    [path EXCEPT !.Headers = WithEntry(@, HashKey, [Exact |-> HashValueOverride]),
                 !.AppendHeaders = WithEntry(@, HashKey, hash)]

\* ingress.InsertProbe(ing): every rule gets, ahead of its paths, a probe
\* copy of each of them.
InsertProbe(in) ==
    [in EXCEPT !.Rules =
        [r \in DOMAIN in.Rules |->
            [in.Rules[r] EXCEPT !.Paths =
                [j \in DOMAIN @ |-> ProbePath(@[j], ComputeHash(in))] \o @]]]

----------------------------------------------------------------------------
(* ServiceNames.                                                           *)

\* A variant of VisitSplit that records the path's host rewrite on every
\* visit, not only when the entry is created.
VisitSplitOverwriting(s, rule, path, split) ==
    LET ok == split.ServiceName \in DOMAIN s
        si == IF ok THEN [s[split.ServiceName] EXCEPT !.RewriteHost = path.RewriteHost]
              ELSE [Port            |-> split.ServicePort,
                    RawVisibilities |-> {},
                    HasPath         |-> path.Path # "",
                    RewriteHost     |-> path.RewriteHost]
        si2 == [si EXCEPT !.RawVisibilities = @ \cup {rule.Visibility}]
    IN  [n \in DOMAIN s \cup {split.ServiceName} |->
            IF n = split.ServiceName THEN si2 ELSE s[n]]

\* The body of the innermost loop: look the service up, create its entry
\* when there is none, add the rule's visibility, store it.
VisitSplit(s, rule, path, split) ==
    LET ok == split.ServiceName \in DOMAIN s
        si == IF ok THEN s[split.ServiceName]
              ELSE [Port            |-> split.ServicePort,
                    RawVisibilities |-> {},
                    HasPath         |-> path.Path # "",
                    RewriteHost     |-> path.RewriteHost]
        si2 == [si EXCEPT !.RawVisibilities = @ \cup {rule.Visibility}]
    IN  [n \in DOMAIN s \cup {split.ServiceName} |->
            IF n = split.ServiceName THEN si2 ELSE s[n]]

RECURSIVE VisitSplits(_, _, _, _)
VisitSplits(s, rule, path, k) ==
    IF k = 0 THEN s
    ELSE VisitSplit(VisitSplits(s, rule, path, k - 1), rule, path, path.Splits[k])

RECURSIVE VisitPaths(_, _, _)
VisitPaths(s, rule, j) ==
    IF j = 0 THEN s
    ELSE VisitSplits(VisitPaths(s, rule, j - 1), rule, rule.Paths[j],
                     Len(rule.Paths[j].Splits))

RECURSIVE VisitRules(_, _, _)
VisitRules(s, in, i) ==
    IF i = 0 THEN s
    ELSE VisitPaths(VisitRules(s, in, i - 1), in.Rules[i], Len(in.Rules[i].Paths))

ServiceNames(in) == VisitRules(<<>>, in, Len(in.Rules))

----------------------------------------------------------------------------
(* MakeHTTPProxies: the pieces of a route.                                 *)

\* hostToTLS: every host of every TLS binding, a later binding replacing an
\* earlier one for the same host.
HostToTLS(in) ==
    LET listing(h) == {k \in DOMAIN in.TLS : h \in Range(in.TLS[k].Hosts)}
        last(h) == CHOOSE k \in listing(h) : \A m \in listing(h) : m <= k
    IN  [h \in UNION {Range(in.TLS[k].Hosts) : k \in DOMAIN in.TLS} |-> in.TLS[last(h)]]

\* The switch on ing.Spec.HTTPOption.
AllowInsecure(in) ==
    CASE in.HTTPOption = HTTPOptionRedirected -> FALSE
      [] in.HTTPOption = HTTPOptionEnabled    -> TRUE
      [] OTHER                                -> FALSE

defaultRetryPolicy ==
    [NumRetries |-> 2,
     RetryOn    |-> <<"cancelled", "connect-failure", "refused-stream",
                      "resource-exhausted", "retriable-status-codes", "reset">>]

TimeoutPolicy(config) ==
    [Response |-> config.Contour.TimeoutPolicyResponse,
     Idle     |-> config.Contour.TimeoutPolicyIdle]

\* The comparison both header policies are sorted with.
HeaderValueLess(a, b) == StrLess(a.Name, b.Name)

\* sort.Slice on a header policy's Set.
SortHeaderValues(seq) ==
    {r \in Rearrangements(seq) :
        \A i, j \in DOMAIN r : i < j => ~HeaderValueLess(r[j], r[i])}

\* preSplitHeaders.Set as appended: the append-headers in the map's iteration
\* order, then "Host" when the path rewrites the host.
PreSplitAppended(path) ==
    {order \o (IF path.RewriteHost # ""
               THEN <<[Name |-> "Host", Value |-> path.RewriteHost]>>
               ELSE <<>>) : order \in RangeOverMap(path.AppendHeaders)}

\* preSplitHeaders after sort.Slice: every value the policy can have.
PreSplitHeaders(path) ==
    {[Set |-> sorted] : sorted \in
        UNION {SortHeaderValues(appended) : appended \in PreSplitAppended(path)}}

HasOriginalHostKey(split) == OriginalHostKey \in DOMAIN split.AppendHeaders

\* postSplitHeaders: sorted, or nil when the split appends no header.
PostSplitHeaders(split) ==
    IF DOMAIN split.AppendHeaders = {} THEN {None}
    ELSE {Some([Set |-> sorted]) : sorted \in
            UNION {SortHeaderValues(appended) :
                     appended \in RangeOverMap(split.AppendHeaders)}}

\* A variant of SelectProtocol without the domain-mapping case.
SelectProtocolFromMapOnly(path, split, stp) ==
    IF split.ServiceName \in DOMAIN stp THEN Some(stp[split.ServiceName]) ELSE None

\* svc.Protocol as set from the service-to-protocol map.
SelectProtocol(path, split, stp) ==
    IF split.ServiceName \in DOMAIN stp
    THEN IF path.RewriteHost # "" /\ HasOriginalHostKey(split)
         THEN Some("h2c")
         ELSE Some(stp[split.ServiceName])
    ELSE None

\* svc.UpstreamValidation as set from the internal-encryption setting.
SelectUpstreamValidation(config) ==
    IF config.Network # None /\ config.Network[1].InternalEncryption
    THEN Some([CACertificate |-> SystemNamespace \o "/" \o ServingInternalCertName,
               SubjectName   |-> FakeDnsName])
    ELSE None

\* A variant of ChallengeException that leaves the service as built.
NoChallengeException(path, svc) == svc

\* The HTTP-01 challenge exception, applied to the service built so far.
ChallengeException(path, svc) ==
    IF Contains(path.Path, HTTPChallengePath)
    THEN [svc EXCEPT !.Protocol = None, !.UpstreamValidation = None]
    ELSE svc

\* One v1.Service, given the header policy chosen for it.
MakeService(path, split, policy, stp, config) ==
    ChallengeException(path,
        [Name                 |-> split.ServiceName,
         Port                 |-> split.ServicePort,
         Weight               |-> split.Percent,
         RequestHeadersPolicy |-> policy,
         Protocol             |-> SelectProtocol(path, split, stp),
         UpstreamValidation   |-> SelectUpstreamValidation(config)])

\* svcs: every value the slice can have after the first k splits.
RECURSIVE Services(_, _, _, _)
Services(path, k, stp, config) ==
    IF k = 0 THEN {<<>>}
    ELSE {Append(svcs, MakeService(path, path.Splits[k], policy, stp, config)) :
            svcs \in Services(path, k - 1, stp, config),
            policy \in PostSplitHeaders(path.Splits[k])}

\* conditions as appended: the prefix condition when the path has a prefix,
\* then one header condition per header match, in the map's iteration order.
ConditionsAppended(path) ==
    {(IF path.Path # "" THEN <<[Prefix |-> path.Path, Header |-> None]>> ELSE <<>>)
       \o [i \in DOMAIN order |->
              [Prefix |-> "",
               Header |-> Some([Name  |-> order[i].Name,
                                Exact |-> order[i].Value.Exact])]] :
     order \in RangeOverMap(path.Headers)}

\* Whether the comparison reads .Header.Name of a condition that has none.
ConditionLessDerefsNil(a, b) ==
    /\ (a.Prefix # "") = (b.Prefix # "")
    /\ a.Header = None \/ b.Header = None

\* A variant of ConditionLess that orders header names ascending.
ConditionLessAscending(a, b) ==
    LET hasPrefixLHS == a.Prefix # ""
        hasPrefixRHS == b.Prefix # ""
    IN  IF hasPrefixLHS /\ ~hasPrefixRHS THEN TRUE
        ELSE IF ~hasPrefixLHS /\ hasPrefixRHS THEN FALSE
        ELSE IF ConditionLessDerefsNil(a, b) THEN FALSE
        ELSE StrLess(a.Header[1].Name, b.Header[1].Name)

\* The comparison the conditions are sorted with.
ConditionLess(a, b) ==
    LET hasPrefixLHS == a.Prefix # ""
        hasPrefixRHS == b.Prefix # ""
    IN  IF hasPrefixLHS /\ ~hasPrefixRHS THEN TRUE
        ELSE IF ~hasPrefixLHS /\ hasPrefixRHS THEN FALSE
        ELSE IF ConditionLessDerefsNil(a, b) THEN FALSE
        ELSE StrLess(b.Header[1].Name, a.Header[1].Name)

\* sort.Slice on the conditions.
SortConditions(seq) ==
    {r \in Rearrangements(seq) :
        \A i, j \in DOMAIN r : i < j => ~ConditionLess(r[j], r[i])}

\* conditions after the sort, which runs only on two or more of them.
Conditions(path) ==
    UNION {IF Len(appended) > 1 THEN SortConditions(appended) ELSE {appended} :
             appended \in ConditionsAppended(path)}

\* Whether sorting the conditions can dereference a nil Header: sort.Slice
\* may compare any two elements of the slice.
SortPanics(path) ==
    \E appended \in ConditionsAppended(path) :
        /\ Len(appended) > 1
        /\ \E i, j \in DOMAIN appended :
              i # j /\ ConditionLessDerefsNil(appended[i], appended[j])

\* A variant of PermitInsecure without the cluster-local exception.
PermitInsecureRuleLevel(rule, allowInsecure) == allowInsecure

\* ai: the rule-level value, except that cluster-local rules always permit.
PermitInsecure(rule, allowInsecure) ==
    IF rule.Visibility = IngressVisibilityClusterLocal THEN TRUE ELSE allowInsecure

MakeRoute(rule, conditions, svcs, preSplitHeaders, allowInsecure, config) ==
    [Conditions           |-> conditions,
     TimeoutPolicy        |-> TimeoutPolicy(config),
     RetryPolicy          |-> defaultRetryPolicy,
     Services             |-> svcs,
     EnableWebsockets     |-> TRUE,
     RequestHeadersPolicy |-> preSplitHeaders,
     PermitInsecure       |-> PermitInsecure(rule, allowInsecure)]

----------------------------------------------------------------------------
(* MakeHTTPProxies: the resources of a rule.                               *)

\* A variant of ClassForHost that keeps the rule's class for every host.
ClassOfRule(class, originalHost, config) == class

\* The class of a host's resource: the rule's, except for a declared host
\* under the cluster domain.
ClassForHost(class, originalHost, config) ==
    IF HasSuffix(originalHost, ClusterDomainName)
    THEN config.Contour.VisibilityClasses[IngressVisibilityClusterLocal]
    ELSE class

\* A variant of SelectTLS that prefers the default secret to the binding.
SelectTLSDefaultFirst(tlsByHost, host, config) ==
    IF config.Contour.DefaultTLSSecret # None
    THEN Some([SecretName |-> config.Contour.DefaultTLSSecret[1].Namespace \o "/"
                                \o config.Contour.DefaultTLSSecret[1].Name])
    ELSE IF host \in DOMAIN tlsByHost
    THEN Some([SecretName |-> tlsByHost[host].SecretNamespace \o "/"
                                \o tlsByHost[host].SecretName])
    ELSE None

\* The virtual host's TLS: the host's binding, else the default secret.
SelectTLS(tlsByHost, host, config) ==
    IF host \in DOMAIN tlsByHost
    THEN Some([SecretName |-> tlsByHost[host].SecretNamespace \o "/"
                                \o tlsByHost[host].SecretName])
    ELSE IF config.Contour.DefaultTLSSecret # None
    THEN Some([SecretName |-> config.Contour.DefaultTLSSecret[1].Namespace \o "/"
                                \o config.Contour.DefaultTLSSecret[1].Name])
    ELSE None

\* The authorization server of the extension-service annotations.
Authorization(in) ==
    IF ExtensionServiceKey \in DOMAIN in.Annotations
    THEN Some([ExtensionServiceRef |->
                 [Name      |-> in.Annotations[ExtensionServiceKey],
                  Namespace |-> IF ExtensionServiceNamespaceKey \in DOMAIN in.Annotations
                                THEN in.Annotations[ExtensionServiceNamespaceKey]
                                ELSE ""]])
    ELSE None

\* One resource: the rule's base copied and finished for an expanded host.
HostProxy(in, rule, rs, originalHost, host, tlsByHost, config) ==
    LET ruleClass == config.Contour.VisibilityClasses[rule.Visibility]
        class == ClassForHost(ruleClass, originalHost, config)
    IN  [Name            |-> ChildName(in.Name \o "-" \o class \o "-", host),
         Namespace       |-> in.Namespace,
         Labels          |-> [k \in {GenerationKey, ParentKey, ClassKey, DomainHashKey} |->
                                CASE k = GenerationKey -> FormatInt(in.Generation)
                                  [] k = ParentKey     -> in.Name
                                  [] k = ClassKey      -> class
                                  [] k = DomainHashKey -> Sha1Hex(host)],
         Annotations     |-> [k \in {ClassKey} |-> class],
         OwnerReferences |-> <<NewControllerRef(in)>>,
         VirtualHost     |-> [Fqdn          |-> host,
                              Authorization |-> Authorization(in),
                              TLS           |-> SelectTLS(tlsByHost, host, config)],
         Routes          |-> rs]

\* A variant of ProxiesOfHost that expands all the rule's hosts at every
\* declared host.
ProxiesOfHostExpandingAll(in, rule, rs, originalHost, tlsByHost, config) ==
    LET hosts == List(UNION {ExpandedHosts(h) : h \in Range(rule.Hosts)})
    IN  [n \in DOMAIN hosts |->
            HostProxy(in, rule, rs, originalHost, hosts[n], tlsByHost, config)]

\* The resources of one declared host: one per expanded host, in List order.
ProxiesOfHost(in, rule, rs, originalHost, tlsByHost, config) ==
    LET hosts == List(ExpandedHosts(originalHost))
    IN  [n \in DOMAIN hosts |->
            HostProxy(in, rule, rs, originalHost, hosts[n], tlsByHost, config)]

\* The resources of the first k declared hosts of a rule.
RECURSIVE ProxiesOfRule(_, _, _, _, _, _)
ProxiesOfRule(in, rule, rs, k, tlsByHost, config) ==
    IF k = 0 THEN <<>>
    ELSE ProxiesOfRule(in, rule, rs, k - 1, tlsByHost, config)
           \o ProxiesOfHost(in, rule, rs, rule.Hosts[k], tlsByHost, config)

----------------------------------------------------------------------------
(* The program's state.                                                    *)

VARIABLES
    ing,                \* the ingress passed to MakeHTTPProxies and ServiceNames
    work,               \* MakeHTTPProxies' private copy of it, probes inserted
    cfg,                \* config.FromContext(ctx)
    serviceToProtocol,  \* the service-to-protocol map
    pc,                 \* "idle", "rules" (inside MakeHTTPProxies) or "panic"
    ruleIdx,            \* the rule the outer loop is at
    pathIdx,            \* the path the inner loop is at
    hostToTLS,          \* MakeHTTPProxies' local of that name
    allowInsecure,      \* MakeHTTPProxies' local of that name
    routes,             \* the routes of the current rule so far
    proxies,            \* the resources appended so far
    first,              \* what the first call of MakeHTTPProxies returned
    second,             \* what the second call returned
    services            \* what ServiceNames returned

vars == <<ing, work, cfg, serviceToProtocol, pc, ruleIdx, pathIdx, hostToTLS,
          allowInsecure, routes, proxies, first, second, services>>

inputs == <<ing, cfg, serviceToProtocol>>

\* MakeHTTPProxies is entered: the ingress is copied and the probes are
\* inserted into the copy, hostToTLS and allowInsecure are computed and the
\* result starts empty.
Begin ==
    /\ pc = "idle"
    /\ second = None
    /\ pc' = "rules"
    /\ ruleIdx' = 1
    /\ pathIdx' = 1
    /\ work' = InsertProbe(ing)
    /\ hostToTLS' = HostToTLS(work')
    /\ allowInsecure' = AllowInsecure(work')
    /\ routes' = <<>>
    /\ proxies' = <<>>
    /\ UNCHANGED <<inputs, first, second, services>>

\* One iteration of the loop over the rule's paths: the path's route is
\* built and appended, unless sorting its conditions panics.
BuildRoute ==
    /\ pc = "rules"
    /\ ruleIdx <= Len(work.Rules)
    /\ pathIdx <= Len(work.Rules[ruleIdx].Paths)
    /\ LET rule == work.Rules[ruleIdx]
           path == rule.Paths[pathIdx]
       IN  IF SortPanics(path)
           THEN /\ pc' = "panic"
                /\ UNCHANGED <<pathIdx, routes>>
           ELSE /\ \E preSplitHeaders \in PreSplitHeaders(path),
                      svcs \in Services(path, Len(path.Splits), serviceToProtocol, cfg),
                      conditions \in Conditions(path) :
                        routes' = Append(routes,
                            MakeRoute(rule, conditions, svcs, preSplitHeaders,
                                      allowInsecure, cfg))
                /\ pathIdx' = pathIdx + 1
                /\ pc' = pc
    /\ UNCHANGED <<inputs, work, ruleIdx, hostToTLS, allowInsecure, proxies, first,
                   second, services>>

\* The rest of an iteration of the loop over the rules: one resource per
\* expanded host of every declared host, all carrying the rule's routes.
EmitProxies ==
    /\ pc = "rules"
    /\ ruleIdx <= Len(work.Rules)
    /\ pathIdx > Len(work.Rules[ruleIdx].Paths)
    /\ LET rule == work.Rules[ruleIdx]
       IN  proxies' = proxies \o
              ProxiesOfRule(work, rule, routes, Len(rule.Hosts), hostToTLS, cfg)
    /\ ruleIdx' = ruleIdx + 1
    /\ pathIdx' = 1
    /\ routes' = <<>>
    /\ UNCHANGED <<inputs, work, pc, hostToTLS, allowInsecure, first, second, services>>

\* MakeHTTPProxies returns proxies.
Return ==
    /\ pc = "rules"
    /\ ruleIdx > Len(work.Rules)
    /\ pc' = "idle"
    /\ first' = IF first = None THEN Some(proxies) ELSE first
    /\ second' = IF first = None THEN second ELSE Some(proxies)
    /\ UNCHANGED <<inputs, work, ruleIdx, pathIdx, hostToTLS, allowInsecure, routes,
                   proxies, services>>

\* ServiceNames is called on the ingress.
CallServiceNames ==
    /\ pc = "idle"
    /\ services = None
    /\ services' = Some(ServiceNames(ing))
    /\ UNCHANGED <<inputs, work, pc, ruleIdx, pathIdx, hostToTLS, allowInsecure,
                   routes, proxies, first, second>>

Next == Begin \/ BuildRoute \/ EmitProxies \/ Return

NextInventory == CallServiceNames

\* The locals before any call.
Locals ==
    /\ work = ing
    /\ pc = "idle"
    /\ ruleIdx = 1
    /\ pathIdx = 1
    /\ hostToTLS = <<>>
    /\ allowInsecure = FALSE
    /\ routes = <<>>
    /\ proxies = <<>>
    /\ first = None
    /\ second = None
    /\ services = None

----------------------------------------------------------------------------
(* Inputs.                                                                 *)

Visibilities == {IngressVisibilityExternalIP, IngressVisibilityClusterLocal}

\* Sequences over S of length 0..n.
SeqUpTo(S, n) == UNION {[1..m -> S] : m \in 0..n}

\* The map with the given keys, each at its value in `values`.
MapOf(keys, values) == [k \in keys |-> values[k]]

Ingress(rules, tls, option, annotations) ==
    [Name        |-> "ing",
     Namespace   |-> "default",
     Generation  |-> 1,
     Annotations |-> annotations,
     Rules       |-> rules,
     TLS         |-> tls,
     HTTPOption  |-> option]

Config(defaultSecret, network) ==
    [Contour |-> [VisibilityClasses     |->
                     [v \in Visibilities |->
                        IF v = IngressVisibilityClusterLocal
                        THEN "contour-internal" ELSE "contour-external"],
                  TimeoutPolicyResponse |-> "infinity",
                  TimeoutPolicyIdle     |-> "infinity",
                  DefaultTLSSecret      |-> defaultSecret],
     Network |-> network]

Split(name, appendHeaders) ==
    [ServiceName   |-> name,
     ServicePort   |-> 80,
     Percent       |-> 100,
     AppendHeaders |-> appendHeaders]

Path(prefix, headers, appendHeaders, rewriteHost, splits) ==
    [Path          |-> prefix,
     Headers       |-> headers,
     AppendHeaders |-> appendHeaders,
     RewriteHost   |-> rewriteHost,
     Splits        |-> splits]

Rule(visibility, hosts, paths) ==
    [Visibility |-> visibility, Hosts |-> hosts, Paths |-> paths]

PlainPath == Path("", <<>>, <<>>, "", <<Split("svc-a", <<>>)>>)

\* An ingress written as one flat sequence of items, each either opening a
\* new rule (with its visibility) or continuing the current one.
FlatEntries(Items) ==
    {[New |-> TRUE, Vis |-> v, Item |-> x] : v \in Visibilities, x \in Items}
      \cup {[New |-> FALSE, Vis |-> IngressVisibilityExternalIP, Item |-> x] : x \in Items}

Flat(Items, n) ==
    {es \in SeqUpTo(FlatEntries(Items), n) : es # <<>> => es[1].New}

\* The groups of a flat sequence: each a visibility and its items in order.
RECURSIVE Groups(_)
Groups(es) ==
    IF es = <<>> THEN <<>>
    ELSE LET start == CHOOSE i \in DOMAIN es :
                         /\ es[i].New
                         /\ \A j \in DOMAIN es : es[j].New => j <= i
         IN  Append(Groups(SubSeq(es, 1, start - 1)),
                    [Visibility |-> es[start].Vis,
                     Items      |-> [k \in 1..(Len(es) - start + 1) |->
                                        es[start + k - 1].Item]])

----------------------------------------------------------------------------
(* Backends: one rule with one path; the path's prefix and host rewrite,   *)
(* its splits, the protocol map and the encryption setting vary.           *)

MaxSplits == 2

Prefixes == {"", "/foo", HTTPChallengePath \o "/token"}
RewriteHosts == {"", "rw.example.com"}
ServiceNameSet == {"svc-a", "svc-b"}
Protocols == {"h2", "tls"}

BackendSplits ==
    {Split(n, MapOf(keys, [k \in {OriginalHostKey} |-> "foo.example.com"])) :
        n \in ServiceNameSet, keys \in SUBSET {OriginalHostKey}}

ProtocolMaps == UNION {[S -> Protocols] : S \in SUBSET ServiceNameSet}

Networks == {None, Some([InternalEncryption |-> FALSE]), Some([InternalEncryption |-> TRUE])}

InitBackend ==
    /\ \E prefix \in Prefixes, rewrite \in RewriteHosts,
          splits \in SeqUpTo(BackendSplits, MaxSplits) :
          ing = Ingress(<<Rule(IngressVisibilityExternalIP, <<"foo.example.com">>,
                               <<Path(prefix, <<>>, <<>>, rewrite, splits)>>)>>,
                        <<>>, "", <<>>)
    /\ cfg \in {Config(None, network) : network \in Networks}
    /\ serviceToProtocol \in ProtocolMaps
    /\ Locals

SpecBackend == InitBackend /\ [][Next]_vars

\* The routes built so far for the current rule, by the index of their path:
\* routes[j] is the route of path j, its Services[k] the service of split k.
BuiltRoutes == IF pc = "rules" THEN DOMAIN routes ELSE {}
CurrentPath(j) == work.Rules[ruleIdx].Paths[j]

\* C3: every service of the route of a path whose prefix contains the
\* HTTP-01 challenge segment has no protocol and no upstream validation.
C3_ChallengePathIsPlain ==
    \A j \in BuiltRoutes :
        Contains(CurrentPath(j).Path, HTTPChallengePath) =>
            \A k \in DOMAIN routes[j].Services :
                /\ routes[j].Services[k].Protocol = None
                /\ routes[j].Services[k].UpstreamValidation = None

\* A challenge path's route is built with a split that would otherwise get
\* both a protocol (forced to h2c) and an upstream validation.
C3_Witness ==
    \E j \in BuiltRoutes :
        /\ Contains(CurrentPath(j).Path, HTTPChallengePath)
        /\ CurrentPath(j).RewriteHost # ""
        /\ cfg.Network # None /\ cfg.Network[1].InternalEncryption
        /\ \E k \in DOMAIN routes[j].Services :
              /\ CurrentPath(j).Splits[k].ServiceName \in DOMAIN serviceToProtocol
              /\ HasOriginalHostKey(CurrentPath(j).Splits[k])

\* C9 as stated: off the challenge path, a split with the original-host key
\* on a path that rewrites the host gets "h2c" whether or not the map has an
\* entry for the service; every other split gets the map's value, or none.
C9_H2cRegardlessOfMap ==
    \A j \in BuiltRoutes :
        ~Contains(CurrentPath(j).Path, HTTPChallengePath) =>
            \A k \in DOMAIN routes[j].Services :
                LET split == CurrentPath(j).Splits[k]
                IN  routes[j].Services[k].Protocol =
                       IF CurrentPath(j).RewriteHost # "" /\ HasOriginalHostKey(split)
                       THEN Some("h2c")
                       ELSE IF split.ServiceName \in DOMAIN serviceToProtocol
                       THEN Some(serviceToProtocol[split.ServiceName])
                       ELSE None

\* C9 amended: off the challenge path, a service the map has no entry for
\* gets no protocol; one it has an entry for gets "h2c" when the path
\* rewrites the host and the split has the original-host key, and the map's
\* value otherwise.
C9_H2cOnlyWithMapEntry ==
    \A j \in BuiltRoutes :
        ~Contains(CurrentPath(j).Path, HTTPChallengePath) =>
            \A k \in DOMAIN routes[j].Services :
                LET split == CurrentPath(j).Splits[k]
                IN  routes[j].Services[k].Protocol =
                       IF split.ServiceName \notin DOMAIN serviceToProtocol
                       THEN None
                       ELSE IF CurrentPath(j).RewriteHost # "" /\ HasOriginalHostKey(split)
                       THEN Some("h2c")
                       ELSE Some(serviceToProtocol[split.ServiceName])

\* A route is built, off the challenge path, with a domain-mapping split
\* whose service has a map entry other than "h2c" and one whose service has
\* no entry.
C9_Witness ==
    \E j \in BuiltRoutes :
        /\ ~Contains(CurrentPath(j).Path, HTTPChallengePath)
        /\ CurrentPath(j).RewriteHost # ""
        /\ \E k, m \in DOMAIN routes[j].Services :
              /\ HasOriginalHostKey(CurrentPath(j).Splits[k])
              /\ HasOriginalHostKey(CurrentPath(j).Splits[m])
              /\ CurrentPath(j).Splits[k].ServiceName \in DOMAIN serviceToProtocol
              /\ serviceToProtocol[CurrentPath(j).Splits[k].ServiceName] = "tls"
              /\ routes[j].Services[k].Protocol = Some("h2c")
              /\ CurrentPath(j).Splits[m].ServiceName \notin DOMAIN serviceToProtocol
              /\ routes[j].Services[m].Protocol = None

----------------------------------------------------------------------------
(* Hosts: rules with one plain path each; the rules' visibilities and      *)
(* declared hosts and the ingress's HTTP option vary.                      *)

MaxHosts == 2

HostNames ==
    {"foo.example.com", "foo.ns", "foo.ns.svc", "foo.ns.svc.cluster.local",
     "bar.cluster.local.cluster.local"}

HTTPOptions == {"", HTTPOptionEnabled, HTTPOptionRedirected, "Disabled"}

HostRules(es) ==
    LET groups == Groups(es)
    IN  [r \in DOMAIN groups |->
            Rule(groups[r].Visibility, groups[r].Items, <<PlainPath>>)]

InitHosts ==
    /\ \E es \in Flat(HostNames, MaxHosts), option \in HTTPOptions :
          ing = Ingress(HostRules(es), <<>>, option, <<>>)
    /\ cfg = Config(None, None)
    /\ serviceToProtocol = <<>>
    /\ Locals

SpecHosts == InitHosts /\ [][Next]_vars

ClusterLocalClass == cfg.Contour.VisibilityClasses[IngressVisibilityClusterLocal]

\* C2: every resource whose virtual-host FQDN ends with the cluster domain
\* has the cluster-local class as its class label and its class annotation.
C2_ClusterDomainHostsAreClusterLocal ==
    \A n \in DOMAIN proxies :
        HasSuffix(proxies[n].VirtualHost.Fqdn, ClusterDomainName) =>
            /\ proxies[n].Labels[ClassKey] = ClusterLocalClass
            /\ proxies[n].Annotations[ClassKey] = ClusterLocalClass

\* Every rule is public and a resource is emitted for a cluster-domain FQDN
\* that is a short form of the declared host, not the declared host itself.
C2_Witness ==
    /\ \A r \in DOMAIN ing.Rules : ing.Rules[r].Visibility = IngressVisibilityExternalIP
    /\ \E n \in DOMAIN proxies :
          /\ HasSuffix(proxies[n].VirtualHost.Fqdn, ClusterDomainName)
          /\ \A r \in DOMAIN ing.Rules :
                proxies[n].VirtualHost.Fqdn \notin Range(ing.Rules[r].Hosts)

\* C4: a route of a cluster-local rule permits insecure traffic whatever the
\* HTTP option; a route of a public rule permits it exactly when the option
\* is Enabled.
C4_PermitInsecure ==
    \A j \in BuiltRoutes :
        LET visibility == work.Rules[ruleIdx].Visibility
        IN  /\ visibility = IngressVisibilityClusterLocal => routes[j].PermitInsecure
            /\ visibility = IngressVisibilityExternalIP =>
                  (routes[j].PermitInsecure <=> work.HTTPOption = HTTPOptionEnabled)

\* A cluster-local rule's route is built under the Redirected option.
C4_Witness ==
    \E j \in BuiltRoutes :
        /\ work.Rules[ruleIdx].Visibility = IngressVisibilityClusterLocal
        /\ work.HTTPOption = HTTPOptionRedirected
        /\ routes[j].PermitInsecure

DeclaredHosts == [r \in DOMAIN ing.Rules |-> ing.Rules[r].Hosts]

\* The declared hostnames are pairwise distinct, within and across rules.
DeclaredHostsDistinct ==
    \A r1, r2 \in DOMAIN DeclaredHosts :
        \A k1 \in DOMAIN DeclaredHosts[r1], k2 \in DOMAIN DeclaredHosts[r2] :
            DeclaredHosts[r1][k1] = DeclaredHosts[r2][k2] => r1 = r2 /\ k1 = k2

\* The declared hostnames expand to pairwise disjoint sets of hosts: no
\* declared hostname is an expanded form of another one.
ExpansionsDisjoint ==
    \A r1, r2 \in DOMAIN DeclaredHosts :
        \A k1 \in DOMAIN DeclaredHosts[r1], k2 \in DOMAIN DeclaredHosts[r2] :
            (r1 # r2 \/ k1 # k2) =>
                ExpandedHosts(DeclaredHosts[r1][k1])
                    \cap ExpandedHosts(DeclaredHosts[r2][k2]) = {}

----------------------------------------------------------------------------
(* TLS: a public rule and a cluster-local rule with one host each; the TLS *)
(* bindings, the default secret and the extension annotations vary.        *)

MaxTLS == 2

TLSBindings ==
    {[Hosts |-> hosts, SecretNamespace |-> secret[1], SecretName |-> secret[2]] :
        hosts \in {<<>>, <<"foo.example.com">>, <<"foo.ns">>,
                   <<"foo.example.com", "foo.ns.svc">>},
        secret \in {<<"ns-a", "cert-a">>, <<"ns-b", "cert-b">>}}

DefaultSecrets == {None, Some([Namespace |-> "knative-serving", Name |-> "default-cert"])}

AnnotationSets ==
    {MapOf(keys, [k \in {ExtensionServiceKey, ExtensionServiceNamespaceKey} |->
                    IF k = ExtensionServiceKey THEN "ext-authz" ELSE "auth"]) :
        keys \in SUBSET {ExtensionServiceKey, ExtensionServiceNamespaceKey}}

InitTLS ==
    /\ \E tls \in SeqUpTo(TLSBindings, MaxTLS), annotations \in AnnotationSets :
          ing = Ingress(<<Rule(IngressVisibilityExternalIP, <<"foo.example.com">>,
                               <<PlainPath>>),
                          Rule(IngressVisibilityClusterLocal, <<"foo.ns.svc.cluster.local">>,
                               <<PlainPath>>)>>,
                        tls, HTTPOptionEnabled, annotations)
    /\ cfg \in {Config(secret, None) : secret \in DefaultSecrets}
    /\ serviceToProtocol = <<>>
    /\ Locals

SpecTLS == InitTLS /\ [][Next]_vars

\* The "namespace/name" secrets of the TLS bindings that list host h.
BoundSecrets(h) ==
    {ing.TLS[k].SecretNamespace \o "/" \o ing.TLS[k].SecretName :
        k \in {m \in DOMAIN ing.TLS : h \in Range(ing.TLS[m].Hosts)}}

\* The secret of the last TLS binding that lists host h.
LastBoundSecret(h) ==
    LET listing == {m \in DOMAIN ing.TLS : h \in Range(ing.TLS[m].Hosts)}
        k == CHOOSE m \in listing : \A x \in listing : x <= m
    IN  ing.TLS[k].SecretNamespace \o "/" \o ing.TLS[k].SecretName

DefaultSecretName ==
    cfg.Contour.DefaultTLSSecret[1].Namespace \o "/" \o cfg.Contour.DefaultTLSSecret[1].Name

\* C5: a resource whose FQDN a TLS binding lists has the secret of a binding
\* that lists it (the last one, when several do), default secret or not;
\* otherwise it has the default secret
\* when one is configured, and no TLS when none is.
C5_TLSSelection ==
    \A n \in DOMAIN proxies :
        LET h == proxies[n].VirtualHost.Fqdn
            tls == proxies[n].VirtualHost.TLS
        IN  IF BoundSecrets(h) # {}
            THEN /\ tls # None
                 /\ tls[1].SecretName \in BoundSecrets(h)
                 /\ tls[1].SecretName = LastBoundSecret(h)
            ELSE IF cfg.Contour.DefaultTLSSecret # None
            THEN tls = Some([SecretName |-> DefaultSecretName])
            ELSE tls = None

\* With a default secret configured, one resource has its binding's secret
\* and another, which no binding lists, has the default.
C5_Witness ==
    /\ cfg.Contour.DefaultTLSSecret # None
    /\ \E m, n \in DOMAIN proxies :
          /\ BoundSecrets(proxies[m].VirtualHost.Fqdn) # {}
          /\ proxies[m].VirtualHost.TLS # None
          /\ proxies[m].VirtualHost.TLS[1].SecretName # DefaultSecretName
          /\ BoundSecrets(proxies[n].VirtualHost.Fqdn) = {}
          /\ proxies[n].VirtualHost.TLS = Some([SecretName |-> DefaultSecretName])

----------------------------------------------------------------------------
(* Match conditions: one rule with one path; its prefix and its header     *)
(* matches vary.                                                           *)

MaxHeaderMatches == 3

MatchHeaderNames == {"Knative-Serving-Tag", "X-Canary", "Accept"}

HeaderMatches ==
    {MapOf(keys, [k \in MatchHeaderNames |->
                    [Exact |-> "v-" \o k]]) :
        keys \in {S \in SUBSET MatchHeaderNames : Cardinality(S) <= MaxHeaderMatches}}

InitConditions ==
    /\ \E prefix \in Prefixes, headers \in HeaderMatches :
          ing = Ingress(<<Rule(IngressVisibilityExternalIP, <<"foo.example.com">>,
                               <<Path(prefix, headers, <<>>, "",
                                      <<Split("svc-a", <<>>)>>)>>)>>,
                        <<>>, "", <<>>)
    /\ cfg = Config(None, None)
    /\ serviceToProtocol = <<>>
    /\ Locals

SpecConditions == InitConditions /\ [][Next]_vars

HeaderConditions(conditions) == {i \in DOMAIN conditions : conditions[i].Header # None}
PrefixConditions(conditions) == {i \in DOMAIN conditions : conditions[i].Prefix # ""}

\* C6: in a route with two or more conditions the prefix condition, when
\* the path has a prefix, comes first and the header conditions follow in
\* strictly descending order of name; there is one header condition per
\* header match of the path and at most one prefix condition; and sorting
\* never reads the header of a condition that has none.
C6_ConditionOrder ==
    /\ pc # "panic"
    /\ \A j \in BuiltRoutes :
          LET conditions == routes[j].Conditions
              path == CurrentPath(j)
          IN  Len(conditions) >= 2 =>
                /\ path.Path # "" =>
                      conditions[1] = [Prefix |-> path.Path, Header |-> None]
                /\ \A i, k \in HeaderConditions(conditions) :
                      i < k => StrLess(conditions[k].Header[1].Name,
                                       conditions[i].Header[1].Name)
                /\ Cardinality(HeaderConditions(conditions)) = Cardinality(DOMAIN path.Headers)
                /\ \A h \in DOMAIN path.Headers :
                      \E i \in HeaderConditions(conditions) :
                          conditions[i].Header[1] =
                              [Name |-> h, Exact |-> path.Headers[h].Exact]
                /\ Cardinality(PrefixConditions(conditions)) <= 1
                /\ Cardinality(PrefixConditions(conditions)) +
                      Cardinality(HeaderConditions(conditions)) = Len(conditions)

\* A route is built for a path with a prefix and three header matches.
C6_Witness ==
    \E j \in BuiltRoutes :
        /\ CurrentPath(j).Path # ""
        /\ Len(routes[j].Conditions) >= 4
        /\ Cardinality(HeaderConditions(routes[j].Conditions)) >= 3

----------------------------------------------------------------------------
(* Header policies: one rule with one path; the path's append-headers,     *)
(* host rewrite and header matches and its split's append-headers vary.    *)

MaxAppendHeaders == 2

AppendHeaderNames == {"Host", "X-Request-Id", "X-Envoy-Attempt"}

AppendHeaderMaps ==
    {MapOf(keys, [k \in AppendHeaderNames |->
                    IF k = "Host" THEN "h.example.com" ELSE "v-" \o k]) :
        keys \in {S \in SUBSET AppendHeaderNames : Cardinality(S) <= MaxAppendHeaders}}

SplitHeaderMaps ==
    {MapOf(keys, [k \in {OriginalHostKey, "X-Extra"} |-> "v-" \o k]) :
        keys \in SUBSET {OriginalHostKey, "X-Extra"}}

InitHeaders ==
    /\ \E appendHeaders \in AppendHeaderMaps, rewrite \in RewriteHosts,
          headers \in {h \in HeaderMatches : DOMAIN h \subseteq {"Knative-Serving-Tag", "X-Canary"}},
          splitHeaders \in SplitHeaderMaps :
          ing = Ingress(<<Rule(IngressVisibilityExternalIP, <<"foo.example.com">>,
                               <<Path("/foo", headers, appendHeaders, rewrite,
                                      <<Split("svc-a", splitHeaders)>>)>>)>>,
                        <<>>, "", <<>>)
    /\ cfg = Config(None, None)
    /\ serviceToProtocol = <<>>
    /\ Locals

SpecHeaders == InitHeaders /\ [][Next]_vars

\* C1: two compilations of the same ingress, settings and protocol map
\* return the same sequence of resources.
C1_Deterministic == second # None => first = second

----------------------------------------------------------------------------
(* The service inventory: the rules' visibilities and their paths'         *)
(* prefixes, host rewrites and split services vary.                        *)

MaxInventoryPaths == 2

InventoryPaths ==
    {Path(prefix, <<>>, <<>>, rewrite, [k \in DOMAIN names |-> Split(names[k], <<>>)]) :
        prefix \in {"", "/foo"}, rewrite \in RewriteHosts,
        names \in {<<"svc-a">>, <<"svc-b">>, <<"svc-a", "svc-b">>}}

InventoryRules(es) ==
    LET groups == Groups(es)
    IN  [r \in DOMAIN groups |->
            Rule(groups[r].Visibility, <<"foo.example.com">>, groups[r].Items)]

InitInventory ==
    /\ \E es \in Flat(InventoryPaths, MaxInventoryPaths) :
          ing = Ingress(InventoryRules(es), <<>>, "", <<>>)
    /\ cfg = Config(None, None)
    /\ serviceToProtocol = <<>>
    /\ Locals

SpecInventory == InitInventory /\ [][NextInventory]_vars

\* The paths that have a split referencing service n, as <<rule, path>>
\* index pairs, and their order: rule order, then path order.
ReferencingPaths(n) ==
    {rp \in UNION {{<<r, j>> : j \in DOMAIN ing.Rules[r].Paths} : r \in DOMAIN ing.Rules} :
        \E k \in DOMAIN ing.Rules[rp[1]].Paths[rp[2]].Splits :
            ing.Rules[rp[1]].Paths[rp[2]].Splits[k].ServiceName = n}

Before(a, b) == a[1] < b[1] \/ (a[1] = b[1] /\ a[2] <= b[2])

FirstPath(n) ==
    LET rp == CHOOSE x \in ReferencingPaths(n) : \A y \in ReferencingPaths(n) : Before(x, y)
    IN  ing.Rules[rp[1]].Paths[rp[2]]

LastPath(n) ==
    LET rp == CHOOSE x \in ReferencingPaths(n) : \A y \in ReferencingPaths(n) : Before(y, x)
    IN  ing.Rules[rp[1]].Paths[rp[2]]

ReferencedServices ==
    {n \in ServiceNameSet : ReferencingPaths(n) # {}}

C8_HasPathAndVisibilities ==
    services # None =>
        \A n \in DOMAIN services[1] :
            /\ services[1][n].HasPath <=>
                  \E rp \in ReferencingPaths(n) : ing.Rules[rp[1]].Paths[rp[2]].Path # ""
            /\ services[1][n].RawVisibilities =
                  {ing.Rules[rp[1]].Visibility : rp \in ReferencingPaths(n)}

====
